---- MODULE Spec2Model ----
(***************************************************************************)
(* GraalArrowStreamer (src/src/lib.rs): the lifecycle of a GraalVM isolate *)
(* behind a loaded native library, the per-call attach/detach protocol,    *)
(* the last-error protocol and the reader bound to the streamer.           *)
(*                                                                         *)
(* The host runtime (the six exported entry points and the callbacks of    *)
(* the Arrow C stream descriptor) is the environment: every return code    *)
(* it gives is a nondeterministic choice.                                  *)
(***************************************************************************)
EXTENDS Integers, Sequences, FiniteSets, TLC

\* ------------------------------------------------------------------ bounds
\* Largest number of batches a source produces.
MaxBatches == 2
\* Batches of one isolate the client program holds at once.
MaxLive == 2
\* Capacity of the last_error buffer: 1024 in the source (lib.rs:303),
\* scaled down so that messages shorter than, equal to and longer than the
\* buffer are all enumerated.
buffer_size == 3

\* Streamer slots of the client program, and the isolates behind them.
Ctxs == {1, 2}
IsoIds == {1, 2}
\* Reader slots of the client program: the readers it holds at once.
Readers == {1, 2}
\* OS threads of the client program.
Threads == {"t1", "t2"}
\* The slots and threads a single-threaded client with one streamer uses.
OneCtx == {1}
OneThread == {"t1"}

\* A null pointer (MaybeUninit::zeroed()).
Null == 0
\* The holder of the Arc<Library> the caller keeps for itself (no slot).
Caller == 0
\* A null *mut graal_isolatethread_t, and the handle of thread t in isolate i.
NullThread == <<Null, "none">>
Handle(i, t) == <<i, t>>

\* --------------------------------------------------------- library symbols
SymbolOrder ==
    << "graal_create_isolate", "graal_tear_down_isolate", "graal_detach_thread",
       "graal_attach_thread", "gas_reader_stream", "gas_last_error" >>
AllSymbols == { SymbolOrder[i] : i \in 1 .. Len(SymbolOrder) }
\* The libraries a client may load: a complete one and incomplete ones.
LibVariants ==
    { AllSymbols,
      AllSymbols \ {"gas_last_error"},
      AllSymbols \ {"graal_detach_thread", "gas_reader_stream"} }

\* A resolution that leaves gas_last_error to the first call that needs it.
FirstMissingButLastError(exports) ==
    LET miss == { i \in 1 .. (Len(SymbolOrder) - 1) : SymbolOrder[i] \notin exports }
    IN  IF miss = {} THEN ""
        ELSE SymbolOrder[CHOOSE i \in miss : \A j \in miss : i <= j]

\* The first symbol, in the order try_new resolves them, that `exports`
\* lacks; "" when all six resolve.
FirstMissing(exports) ==
    LET miss == { i \in 1 .. Len(SymbolOrder) : SymbolOrder[i] \notin exports }
    IN  IF miss = {} THEN ""
        ELSE SymbolOrder[CHOOSE i \in miss : \A j \in miss : i <= j]

\* ------------------------------------------------------------------ bytes
\* 'A', 'B', and the two bytes of U+00E9 in UTF-8.
ByteA == 65
ByteB == 66
ByteLead == 195
ByteCont == 169
CharEAcute == 233
\* U+FFFD, what lossy decoding puts for an invalid sequence.
Replacement == 65533

\* Paths a caller passes to create_reader: a plain one and one with an
\* embedded NUL.
Paths == { <<ByteA>>, <<ByteA, 0, ByteB>> }
\* Texts the host runtime may hold as its last error.
HostMsgs ==
    { <<ByteA>>,
      <<ByteA, ByteLead, ByteCont>>,
      <<ByteA, ByteB, ByteLead, ByteCont>>,
      <<ByteA, ByteB, ByteA, ByteB, ByteA>> }
\* Schemas a source may have.
Schemas == {"s1", "s2"}

Min(a, b) == IF a < b THEN a ELSE b
HasNul(s) == \E i \in 1 .. Len(s) : s[i] = 0
IsPrefix(p, s) == Len(p) <= Len(s) /\ \A i \in 1 .. Len(p) : p[i] = s[i]
\* The bytes of s before its first NUL (s holds one).
UpToNul(s) ==
    LET k == CHOOSE i \in 1 .. Len(s) : s[i] = 0 /\ \A j \in 1 .. (i - 1) : s[j] # 0
    IN  SubSeq(s, 1, k - 1)

\* String::from_utf8_lossy over the byte alphabet above: a lead byte followed
\* by its continuation byte is one character, a lead byte alone or a
\* continuation byte alone becomes U+FFFD.
RECURSIVE Lossy(_)
Lossy(b) ==
    IF b = <<>> THEN <<>>
    ELSE IF b[1] = ByteLead /\ Len(b) >= 2 /\ b[2] = ByteCont
         THEN <<CharEAcute>> \o Lossy(SubSeq(b, 3, Len(b)))
    ELSE IF b[1] \in {ByteLead, ByteCont}
         THEN <<Replacement>> \o Lossy(Tail(b))
    ELSE <<b[1]>> \o Lossy(Tail(b))

\* ------------------------------------------------------------------ state
VARIABLES
    scenario,       \* the client program and the sources of the run
    lib_exports,    \* the symbols the loaded Library exports
    lib_refs,       \* who holds an Arc<Library>: the caller and streamer slots
    ctx,            \* the GraalArrowStreamer values, by slot
    reader,         \* the LocalArrowArrayStreamReader values, by slot
    live_batches,   \* RecordBatch values alive, by the isolate that made them
    iso,            \* host runtime: the state of each isolate
    attached,       \* host runtime: attached thread handle -> what it knows of it
    tear_down_calls,\* host runtime: handles graal_tear_down_isolate got, by isolate
    pc,             \* where each thread is in the call it is making
    frame,          \* the locals of that call
    crashed         \* the process took a SIGSEGV

vars == << scenario, lib_exports, lib_refs, ctx, reader, live_batches, iso, attached,
           tear_down_calls, pc, frame, crashed >>

\* FFI_ArrowArrayStream::empty()
EmptyStream == [populated |-> FALSE, remaining |-> 0, schema |-> "none"]
\* A streamer slot that holds no value.
NoCtx == [state |-> "none", ptr_isolate |-> Null, fns |-> << >>]
\* A reader slot that holds no value.
NoReader ==
    [state |-> "none", ctx |-> 0, isolate |-> Null, remaining |-> 0,
     schema |-> "none", yielded |-> 0, ended |-> FALSE]
\* No outcome yet.
NoRes == [kind |-> "none", err |-> "", msg |-> <<>>, val |-> "none"]
\* The locals of a thread that is in no call.
NoFrame ==
    [op |-> "none", ctx |-> 0, rd |-> 0, path |-> <<>>, ptr_isolate |-> Null,
     ptr_thread |-> NullThread, c_str |-> <<>>, ffi_stream |-> EmptyStream,
     err_code |-> 0, host_text |-> <<>>, error |-> <<>>, log |-> <<>>,
     res |-> NoRes]

Ok(v) == [kind |-> "ok", err |-> "", msg |-> <<>>, val |-> v]
Err(e, m) == [kind |-> "err", err |-> e, msg |-> m, val |-> "none"]
Panic(e) == [kind |-> "panic", err |-> e, msg |-> <<>>, val |-> "none"]

\* One host-runtime call, as the call log of a frame records it.
Call(fn, i, h, rc) == [fn |-> fn, isolate |-> i, thread |-> h, rc |-> rc]

\* The runs checked: "full" is every path, error text and source; "plain" is
\* paths without a NUL, error texts of one byte and sources of one schema;
\* "short" is "plain" with sources of at most one batch and a client that
\* holds one batch of a streamer at a time.
Scenarios == {"full", "plain", "short"}
ScenarioPaths == IF scenario = "full" THEN Paths ELSE { p \in Paths : ~HasNul(p) }
ScenarioMsgs == IF scenario = "full" THEN HostMsgs ELSE { m \in HostMsgs : Len(m) <= 1 }
ScenarioSchemas == IF scenario = "full" THEN Schemas ELSE {"s1"}
ScenarioBatches == IF scenario = "short" THEN 1 ELSE MaxBatches
ScenarioLive == IF scenario = "short" THEN 1 ELSE MaxLive

\* The state before the first try_new, in scenario sc with one of libs loaded.
Start(sc, libs) ==
    /\ scenario = sc
    /\ lib_exports \in libs
    /\ lib_refs = {Caller}
    /\ ctx = [c \in Ctxs |-> NoCtx]
    /\ reader = [r \in Readers |-> NoReader]
    /\ live_batches = [i \in IsoIds |-> 0]
    /\ iso = [i \in IsoIds |-> "none"]
    /\ attached = << >>
    /\ tear_down_calls = [i \in IsoIds |-> << >>]
    /\ pc = [t \in Threads |-> "idle"]
    /\ frame = [t \in Threads |-> NoFrame]
    /\ crashed = FALSE

Init == Start("full", LibVariants)

\* ------------------------------------------------------------ host runtime
\* Return codes of the host entry points: zero, or non-zero.
RetCodes == {0, 1}
IsAttached(h) == h \in DOMAIN attached
\* What the host keeps for an attached thread: its last error text, and
\* whether the host has refused to let the thread go.
FreshThread == [text |-> <<>>, refused |-> FALSE]
\* attached with handle h registered (a thread already attached keeps its
\* IsolateThread and what it stores).
HostAttach(h) ==
    IF IsAttached(h) THEN attached
    ELSE [x \in (DOMAIN attached) \cup {h} |-> IF x = h THEN FreshThread ELSE attached[x]]
\* attached with handle h deregistered.
HostDetach(h) == [x \in (DOMAIN attached) \ {h} |-> attached[x]]
\* attached with every handle of isolate i gone.
HostDropIsolate(i) == [x \in { y \in DOMAIN attached : y[1] # i } |-> attached[x]]
\* attached after the host answered non-zero to letting h go.
HostRefuse(h) ==
    IF IsAttached(h) THEN [attached EXCEPT ![h].refused = TRUE] ELSE attached

\* The host state after entry point `sym` (one of the two that take a thread
\* handle and nothing else) was called with h and answered rc.
HostThreadCall(sym, h, rc) ==
    LET down == sym = "graal_tear_down_isolate"
        hit == down /\ rc = 0 /\ h[1] \in IsoIds
    IN  [iso |-> IF hit THEN [iso EXCEPT ![h[1]] = "torn"] ELSE iso,
         attached |-> IF rc # 0 THEN HostRefuse(h)
                      ELSE IF down THEN HostDropIsolate(h[1]) ELSE HostDetach(h),
         tear_down_calls |->
            IF down /\ h[1] \in IsoIds
            THEN [tear_down_calls EXCEPT ![h[1]] = Append(@, h)]
            ELSE tear_down_calls]

\* The isolate id the host gives the next isolate it creates.
FreshIso == CHOOSE i \in IsoIds : iso[i] = "none" /\ \A j \in IsoIds : iso[j] = "none" => i <= j

\* A thread in a call on streamer slot c (it holds `&self`, or is building it).
InCall(t, c) == pc[t] # "idle" /\ frame[t].ctx = c
Busy(c) == \E t \in Threads : InCall(t, c)

\* The call of thread t ends with outcome r.
Finish(t, f, r) ==
    /\ pc' = [pc EXCEPT ![t] = "ret"]
    /\ frame' = [frame EXCEPT ![t] = [f EXCEPT !.res = r]]

\* -------------------------------------------------------------- try_new
\* try_new, lines 172-220: the six symbols are resolved in order; the first
\* one missing ends the call with an error and the Arc<Library> is dropped.
TryNewResolve(t, c) ==
    /\ ~crashed /\ pc[t] = "idle"
    /\ ctx[c].state = "none" /\ ~Busy(c)
    /\ Caller \in lib_refs
    /\ LET f == [NoFrame EXCEPT !.op = "try_new", !.ctx = c]
       IN  IF FirstMissing(lib_exports) # ""
           THEN /\ Finish(t, f, Err("SymbolResolutionError", <<>>))
                /\ UNCHANGED lib_refs
           ELSE /\ pc' = [pc EXCEPT ![t] = "tn_create"]
                /\ frame' = [frame EXCEPT ![t] = f]
                /\ lib_refs' = lib_refs \cup {c}
    /\ UNCHANGED << scenario, lib_exports, ctx, reader, live_batches, iso, attached, tear_down_calls, crashed >>

\* A check that takes only a negative return code for a failure.
CreateIsolateFailsNegative(rc) == rc < 0

\* try_new, line 232: the outcome of f_graal_create_isolate's return code.
CreateIsolateFails(rc) == rc # 0

\* try_new, lines 227-237: f_graal_create_isolate(null, &ptr_isolate, &ptr_thread).
TryNewCreateIsolate(t) ==
    /\ ~crashed /\ pc[t] = "tn_create"
    /\ \E rc \in RetCodes :
         LET f == frame[t]
             i == FreshIso
             lg == Append(f.log, Call("graal_create_isolate", Null, NullThread, rc))
         IN  IF CreateIsolateFails(rc)
             THEN /\ Finish(t, [f EXCEPT !.log = lg], Err("ContextCreationError", <<>>))
                  /\ lib_refs' = lib_refs \ {f.ctx}
                  /\ UNCHANGED << iso, attached >>
             ELSE /\ iso' = [iso EXCEPT ![i] = "alive"]
                  /\ attached' = HostAttach(Handle(i, t))
                  /\ pc' = [pc EXCEPT ![t] = "tn_detach"]
                  /\ frame' = [frame EXCEPT ![t] =
                        [f EXCEPT !.ptr_isolate = i, !.ptr_thread = Handle(i, t), !.log = lg]]
                  /\ UNCHANGED lib_refs
    /\ UNCHANGED << scenario, lib_exports, ctx, reader, live_batches, tear_down_calls, crashed >>

\* The table with the two entry points of the same C type taken one for the
\* other: teardown where detach belongs.
FnTableSwapped ==
    [f_tear_down_isolate |-> "graal_detach_thread",
     f_detach_thread |-> "graal_tear_down_isolate",
     f_attach_thread |-> "graal_attach_thread",
     f_create_reader |-> "gas_reader_stream",
     f_last_error |-> "gas_last_error"]

\* try_new, lines 243-251: the function table of the assembled streamer,
\* each field with the symbol it is given.
FnTable ==
    [f_tear_down_isolate |-> "graal_tear_down_isolate",
     f_detach_thread |-> "graal_detach_thread",
     f_attach_thread |-> "graal_attach_thread",
     f_create_reader |-> "gas_reader_stream",
     f_last_error |-> "gas_last_error"]

\* A pointer kept in one place for every streamer of the process: the isolate
\* of the first streamer built, while there is one.
SharedIsolate(f) ==
    LET built == { c \in Ctxs : ctx[c].state # "none" }
    IN  IF built = {} THEN f.ptr_isolate
        ELSE ctx[CHOOSE c \in built : \A d \in built : c <= d].ptr_isolate

\* try_new, line 245: the ptr_isolate field is the pointer this call's
\* f_graal_create_isolate wrote.
IsolateOf(f) == f.ptr_isolate

\* What try_new does with the return code of f_graal_detach_thread: nothing.
TryNewDetachResult(rc) == Ok("streamer")

\* try_new, lines 239-252: the initial thread is detached, the return code
\* dropped, and the streamer assembled.
TryNewDetach(t) ==
    /\ ~crashed /\ pc[t] = "tn_detach"
    /\ \E rc \in RetCodes :
         LET f == frame[t]
             host == HostThreadCall("graal_detach_thread", f.ptr_thread, rc)
             lg == Append(f.log, Call("graal_detach_thread", Null, f.ptr_thread, rc))
         IN  /\ attached' = host.attached
             /\ iso' = host.iso
             /\ tear_down_calls' = host.tear_down_calls
             /\ ctx' = [ctx EXCEPT ![f.ctx] =
                   [state |-> "live", ptr_isolate |-> IsolateOf(f), fns |-> FnTable]]
             /\ Finish(t, [f EXCEPT !.log = lg], TryNewDetachResult(rc))
    /\ UNCHANGED << scenario, lib_exports, lib_refs, reader, live_batches, crashed >>

\* ---------------------------------------------------------- create_reader
FreeSlots == { r \in Readers : reader[r].state = "none" }
Opening == { t \in Threads : pc[t] # "idle" /\ frame[t].op = "create_reader" }

\* An attach whose return code is not looked at.
AttachThreadNeverFails(rc) == FALSE

\* attach_tread, lines 322-333: the outcome of f_attach_thread's return code.
AttachThreadFails(rc) == rc # 0

\* create_reader, line 268: the call starts by attaching the calling thread
\* to the isolate of `self`; a failure is returned at once (`?`).
CreateReaderAttach(t, c, path) ==
    /\ ~crashed /\ pc[t] = "idle"
    /\ path \in ScenarioPaths
    /\ ctx[c].state = "live"
    /\ Cardinality(FreeSlots) > Cardinality(Opening)
    /\ \E rc \in RetCodes :
         LET i == ctx[c].ptr_isolate
             f == [NoFrame EXCEPT !.op = "create_reader", !.ctx = c, !.path = path,
                                  !.log = << Call("graal_attach_thread", i, NullThread, rc) >>]
         IN  IF AttachThreadFails(rc)
             THEN /\ Finish(t, f, Err("ThreadAttachError", <<>>))
                  /\ UNCHANGED attached
             ELSE /\ attached' = HostAttach(Handle(i, t))
                  /\ pc' = [pc EXCEPT ![t] = "cr_cstring"]
                  /\ frame' = [frame EXCEPT ![t] = [f EXCEPT !.ptr_thread = Handle(i, t)]]
    /\ UNCHANGED << scenario, lib_exports, lib_refs, ctx, reader, live_batches, iso, tear_down_calls, crashed >>

\* A handle kept where every call on the streamer finds it: the one the
\* latest attach of any call in progress wrote.
SharedThreadPtr(t) ==
    LET others == { u \in Threads \ {t} :
                      pc[u] # "idle" /\ frame[u].op = "create_reader"
                      /\ frame[u].ptr_thread # NullThread }
    IN  IF others = {} THEN frame[t].ptr_thread
        ELSE frame[CHOOSE u \in others : TRUE].ptr_thread

\* create_reader, line 268: ptr_thread is a local of the call; lines 275, 280,
\* 281 and 284 pass it on.
ThreadPtr(t) == frame[t].ptr_thread

\* A check that takes only a negative err_code for a failure.
ProduceFailsNegative(err_code) == err_code < 0

\* create_reader, line 279: the outcome of f_create_reader's return code.
ProduceFails(err_code) == err_code # 0

\* What create_reader does when CString::new(path) is an Err: `.unwrap()`.
CStringNulOutcome == Panic("NulError")

\* create_reader, lines 269-273: the path becomes a C string (the bytes and a
\* NUL terminator); a path with an interior NUL is a NulError, unwrapped.
CreateReaderCString(t) ==
    /\ ~crashed /\ pc[t] = "cr_cstring"
    /\ LET f == frame[t]
       IN  IF HasNul(f.path)
           THEN Finish(t, f, CStringNulOutcome)
           ELSE /\ pc' = [pc EXCEPT ![t] = "cr_call"]
                /\ frame' = [frame EXCEPT ![t] =
                      [f EXCEPT !.c_str = Append(f.path, 0), !.ffi_stream = EmptyStream]]
    /\ UNCHANGED << scenario, lib_exports, lib_refs, ctx, reader, live_batches, iso, attached, tear_down_calls,
                    crashed >>

\* create_reader, line 275: f_create_reader(ptr_thread, c_str_path, address).
\* On zero the host has written a stream at the address (or, misbehaving,
\* has not); on non-zero it has recorded an error text for the thread.
CreateReaderCall(t) ==
    /\ ~crashed /\ pc[t] = "cr_call"
    /\ \E rc \in RetCodes :
         LET f == frame[t]
             h == ThreadPtr(t)
             lg == Append(f.log, Call("gas_reader_stream", Null, h, rc))
         IN  IF ProduceFails(rc)
             THEN \E m \in ScenarioMsgs :
                    /\ attached' = IF IsAttached(h) THEN [attached EXCEPT ![h].text = m]
                                   ELSE attached
                    /\ pc' = [pc EXCEPT ![t] = "cr_last_error"]
                    /\ frame' = [frame EXCEPT ![t] = [f EXCEPT !.err_code = rc, !.log = lg]]
             ELSE \E st \in { [populated |-> TRUE, remaining |-> n, schema |-> sc] :
                                n \in 0 .. ScenarioBatches, sc \in ScenarioSchemas } \cup {EmptyStream} :
                    /\ pc' = [pc EXCEPT ![t] = "cr_ok_detach"]
                    /\ frame' = [frame EXCEPT ![t] =
                          [f EXCEPT !.err_code = rc, !.ffi_stream = st, !.log = lg]]
                    /\ UNCHANGED attached
    /\ UNCHANGED << scenario, lib_exports, lib_refs, ctx, reader, live_batches, iso, tear_down_calls, crashed >>

\* ------------------------------------------------------------- last_error
\* What f_last_error leaves in a zeroed buffer of `cap` bytes: nothing when
\* it fails, else the text cut to the capacity, with or without room kept
\* for a terminating NUL.
HostWrite(text, cap, rc, terminate) ==
    LET n == IF rc # 0 THEN 0
             ELSE Min(Len(text), IF terminate THEN cap - 1 ELSE cap)
    IN  [i \in 1 .. cap |-> IF i <= n THEN text[i] ELSE 0]

\* Bytes that may lie after the buffer before the next NUL in memory.
Overread == { <<>>, <<ByteB>>, <<ByteLead>> }

\* CStr::from_ptr(ptr_string): the bytes up to the first NUL. Without a NUL
\* in the buffer the scan runs past its end: it stops at a NUL further on,
\* or faults.
CStrFromPtr(buffer) ==
    IF HasNul(buffer)
    THEN { [segv |-> FALSE, bytes |-> UpToNul(buffer)] }
    ELSE { [segv |-> FALSE, bytes |-> buffer \o o] : o \in Overread }
         \cup { [segv |-> TRUE, bytes |-> <<>>] }

\* create_reader, line 280, and last_error, lines 302-313.
CreateReaderLastError(t) ==
    /\ ~crashed /\ pc[t] = "cr_last_error"
    /\ \E rc \in RetCodes, terminate \in BOOLEAN :
         LET f == frame[t]
             h == ThreadPtr(t)
             text == IF IsAttached(h) THEN attached[h].text ELSE <<>>
             buffer == HostWrite(text, buffer_size, rc, terminate)
             lg == Append(f.log, Call("gas_last_error", Null, h, rc))
         IN  \E c_str \in CStrFromPtr(buffer) :
               IF c_str.segv
               THEN /\ crashed' = TRUE
                    /\ UNCHANGED << pc, frame >>
               ELSE /\ pc' = [pc EXCEPT ![t] = "cr_err_detach"]
                    /\ frame' = [frame EXCEPT ![t] =
                          [f EXCEPT !.error = Lossy(c_str.bytes), !.log = lg,
                                    !.host_text = IF rc = 0 THEN text ELSE <<>>]]
                    /\ UNCHANGED crashed
    /\ UNCHANGED << scenario, lib_exports, lib_refs, ctx, reader, live_batches, iso, attached, tear_down_calls >>

\* detach_thread, lines 342-350: the outcome of f_detach_thread's return code.
DetachThreadFails(rc) == rc # 0

\* create_reader, lines 281-282: what is returned once the error text is in
\* hand and detach_thread has answered.
ErrPathResult(detach_rc, error) ==
    IF DetachThreadFails(detach_rc)
    THEN Err("ThreadDetachError", <<>>)
    ELSE Err("DataSourceError", error)

\* create_reader, lines 281-282.
CreateReaderErrDetach(t) ==
    /\ ~crashed /\ pc[t] = "cr_err_detach"
    /\ \E rc \in RetCodes :
         LET f == frame[t]
             sym == ctx[f.ctx].fns.f_detach_thread
             host == HostThreadCall(sym, ThreadPtr(t), rc)
             lg == Append(f.log, Call(sym, Null, ThreadPtr(t), rc))
         IN  /\ attached' = host.attached
             /\ iso' = host.iso
             /\ tear_down_calls' = host.tear_down_calls
             /\ Finish(t, [f EXCEPT !.log = lg], ErrPathResult(rc, f.error))
    /\ UNCHANGED << scenario, lib_exports, lib_refs, ctx, reader, live_batches, crashed >>

\* A stream on the stack that is forgotten, not dropped.
ForgetStream(st, lg) == lg

\* Drop of an FFI_ArrowArrayStream: a populated stream is released through
\* its release callback; an empty one has none.
DropStream(st, lg) ==
    IF st.populated THEN Append(lg, Call("release", Null, NullThread, 0)) ELSE lg

\* create_reader, line 284: detach on the success path; a failure is
\* returned (`?`) and the stream on the stack is dropped.
CreateReaderOkDetach(t) ==
    /\ ~crashed /\ pc[t] = "cr_ok_detach"
    /\ \E rc \in RetCodes :
         LET f == frame[t]
             sym == ctx[f.ctx].fns.f_detach_thread
             host == HostThreadCall(sym, ThreadPtr(t), rc)
             lg == Append(f.log, Call(sym, Null, ThreadPtr(t), rc))
         IN  /\ attached' = host.attached
             /\ iso' = host.iso
             /\ tear_down_calls' = host.tear_down_calls
             /\ IF DetachThreadFails(rc)
                THEN Finish(t, [f EXCEPT !.log = DropStream(f.ffi_stream, lg),
                                         !.ffi_stream = EmptyStream],
                            Err("ThreadDetachError", <<>>))
                ELSE /\ pc' = [pc EXCEPT ![t] = "cr_from_raw"]
                     /\ frame' = [frame EXCEPT ![t] = [f EXCEPT !.log = lg]]
    /\ UNCHANGED << scenario, lib_exports, lib_refs, ctx, reader, live_batches, crashed >>

\* create_reader, lines 285-289: ArrowArrayStreamReader::from_raw takes the
\* stream, refuses a released one, asks it for its schema (an error drops the
\* stream), and the reader is wrapped with the lifetime of `self`.
CreateReaderFromRaw(t) ==
    /\ ~crashed /\ pc[t] = "cr_from_raw"
    /\ LET f == frame[t]
           st == f.ffi_stream
       IN  IF ~st.populated
           THEN /\ Finish(t, f, Err("StreamImportError", <<>>))
                /\ UNCHANGED reader
           ELSE \E rc \in RetCodes :
                  LET lg == Append(f.log, Call("get_schema", Null, NullThread, rc))
                      r == CHOOSE x \in FreeSlots : \A y \in FreeSlots : x <= y
                  IN  IF rc # 0
                      THEN /\ Finish(t, [f EXCEPT !.log = DropStream(st, lg),
                                                  !.ffi_stream = EmptyStream],
                                     Err("StreamImportError", <<>>))
                           /\ UNCHANGED reader
                      ELSE /\ reader' = [reader EXCEPT ![r] =
                                 [state |-> "open", ctx |-> f.ctx,
                                  isolate |-> ctx[f.ctx].ptr_isolate,
                                  remaining |-> st.remaining, schema |-> st.schema,
                                  yielded |-> 0, ended |-> FALSE]]
                           /\ Finish(t, [f EXCEPT !.log = lg, !.ffi_stream = EmptyStream,
                                                  !.rd = r],
                                     Ok("reader"))
    /\ UNCHANGED << scenario, lib_exports, lib_refs, ctx, live_batches, iso, attached,
                    tear_down_calls, crashed >>

\* Control is back in the caller: the locals of the call are gone.
Return(t) ==
    /\ ~crashed /\ pc[t] = "ret"
    /\ pc' = [pc EXCEPT ![t] = "idle"]
    /\ frame' = [frame EXCEPT ![t] = NoFrame]
    /\ UNCHANGED << scenario, lib_exports, lib_refs, ctx, reader, live_batches, iso, attached, tear_down_calls,
                    crashed >>

\* ------------------------------------------------- drop(GraalArrowStreamer)
\* Readers of slot c that are still in scope when the streamer is moved out:
\* the borrow `&'local self` ends at a reader's last use, and the reader has
\* no destructor of its own that names 'local, so the move is accepted with
\* the reader alive; it is dropped where its scope ends.
Outlive(rd) == IF rd.state = "open" THEN [rd EXCEPT !.state = "dangling"] ELSE rd

\* A drop that tears down whatever the attach answered.
DropTearsDownAlways(rc) == TRUE

\* Whether drop calls f_tear_down_isolate, given f_attach_thread's return code.
DropTearsDown(rc) == rc = 0

\* Drop, lines 378-385: the value is moved out of its slot (no call borrows
\* it), the dropping thread attaches, and without an attachment nothing more
\* is done.
DropAttach(t, c) ==
    /\ ~crashed /\ pc[t] = "idle"
    /\ ctx[c].state = "live" /\ ~Busy(c)
    /\ reader' = [r \in Readers |-> IF reader[r].ctx = c THEN Outlive(reader[r])
                                    ELSE reader[r]]
    /\ \E rc \in RetCodes :
         LET i == ctx[c].ptr_isolate
             f == [NoFrame EXCEPT !.op = "drop", !.ctx = c,
                                  !.log = << Call("graal_attach_thread", i, NullThread, rc) >>]
         IN  IF DropTearsDown(rc)
             THEN /\ attached' = IF rc = 0 THEN HostAttach(Handle(i, t)) ELSE attached
                  /\ ctx' = [ctx EXCEPT ![c].state = "dropping"]
                  /\ pc' = [pc EXCEPT ![t] = "dr_tear_down"]
                  /\ frame' = [frame EXCEPT ![t] =
                        [f EXCEPT !.ptr_thread = IF rc = 0 THEN Handle(i, t) ELSE NullThread]]
                  /\ UNCHANGED lib_refs
             ELSE /\ ctx' = [ctx EXCEPT ![c].state = "dropped"]
                  /\ lib_refs' = lib_refs \ {c}
                  /\ Finish(t, f, Ok("unit"))
                  /\ UNCHANGED attached
    /\ UNCHANGED << scenario, lib_exports, live_batches, iso, tear_down_calls, crashed >>

\* Drop, line 386: f_tear_down_isolate(ptr_thread), its return code dropped;
\* then the fields go, the Arc<Library> last.
DropTearDown(t) ==
    /\ ~crashed /\ pc[t] = "dr_tear_down"
    /\ \E rc \in RetCodes :
         LET f == frame[t]
             c == f.ctx
             sym == ctx[c].fns.f_tear_down_isolate
             host == HostThreadCall(sym, f.ptr_thread, rc)
             lg == Append(f.log, Call(sym, Null, f.ptr_thread, rc))
         IN  /\ tear_down_calls' = host.tear_down_calls
             /\ iso' = host.iso
             /\ attached' = host.attached
             /\ ctx' = [ctx EXCEPT ![c].state = "dropped"]
             /\ lib_refs' = lib_refs \ {c}
             /\ Finish(t, [f EXCEPT !.log = lg], Ok("unit"))
    /\ UNCHANGED << scenario, lib_exports, reader, live_batches, crashed >>

\* ----------------------------------------------- LocalArrowArrayStreamReader
\* Iterator::next, lines 363-365: forwards to the inner reader, which asks
\* the stream for its next array. The sources are the finite ones: the
\* stream gives the arrays it has left, then its end.
ReaderNext(t, r) ==
    /\ ~crashed /\ pc[t] = "idle"
    /\ reader[r].state = "open"
    /\ LET rd == reader[r]
           f == [NoFrame EXCEPT !.op = "next", !.rd = r]
       IN  \/ /\ rd.remaining > 0
              /\ live_batches[rd.isolate] < ScenarioLive
              /\ reader' = [reader EXCEPT ![r] =
                    [rd EXCEPT !.remaining = @ - 1, !.yielded = @ + 1]]
              /\ live_batches' = [live_batches EXCEPT ![rd.isolate] = @ + 1]
              /\ Finish(t, f, Ok("batch"))
           \/ /\ rd.remaining = 0
              /\ reader' = [reader EXCEPT ![r].ended = TRUE]
              /\ UNCHANGED live_batches
              /\ Finish(t, f, Ok("end"))
    /\ UNCHANGED << scenario, lib_exports, lib_refs, ctx, iso, attached, tear_down_calls, crashed >>

\* A schema() that reads the schema off the stream's current position: none
\* is left once the stream has ended.
ReaderSchemaAtPosition(rd) == IF rd.ended THEN "none" ELSE rd.schema

\* What schema() answers for reader value rd: the schema the inner reader
\* took from the stream when it was built.
ReaderSchemaOf(rd) == rd.schema

\* RecordBatchReader::schema, lines 369-371.
ReaderSchema(t, r) ==
    /\ ~crashed /\ pc[t] = "idle"
    /\ reader[r].state = "open"
    /\ Finish(t, [NoFrame EXCEPT !.op = "schema", !.rd = r], Ok(ReaderSchemaOf(reader[r])))
    /\ UNCHANGED << scenario, lib_exports, lib_refs, ctx, reader, live_batches, iso, attached,
                    tear_down_calls, crashed >>

\* A release callback runs in the host runtime: with the isolate torn down
\* there is nothing behind it (the SIGSEGV of should_call_stream_leak_memory_1,
\* which comes "randomly"): the process dies, or the call happens to pass.
ReleaseOutcomes(i) == IF iso[i] = "torn" THEN {"segv", "pass"} ELSE {"pass"}

\* The inner reader is dropped and its stream released.
ReleaseReader(r) ==
    \E o \in ReleaseOutcomes(reader[r].isolate) :
      IF o = "segv"
      THEN crashed' = TRUE /\ UNCHANGED reader
      ELSE reader' = [reader EXCEPT ![r] = NoReader] /\ UNCHANGED crashed

\* drop(stream) by the caller, while the streamer is borrowed.
DropReader(t, r) ==
    /\ ~crashed /\ pc[t] = "idle"
    /\ reader[r].state = "open"
    /\ ReleaseReader(r)
    /\ UNCHANGED << scenario, lib_exports, lib_refs, ctx, live_batches, iso, attached,
                    tear_down_calls, pc, frame >>

\* The reader's scope ends after its streamer was dropped.
ScopeEndDropReader(t, r) ==
    /\ ~crashed /\ pc[t] = "idle"
    /\ reader[r].state = "dangling"
    /\ ctx[reader[r].ctx].state = "dropped"
    /\ ReleaseReader(r)
    /\ UNCHANGED << scenario, lib_exports, lib_refs, ctx, live_batches, iso, attached,
                    tear_down_calls, pc, frame >>

\* drop(batch): a RecordBatch carries no lifetime, so it may go at any time;
\* its arrays are released through their release callbacks.
DropBatch(t, i) ==
    /\ ~crashed /\ pc[t] = "idle"
    /\ live_batches[i] > 0
    /\ \E o \in ReleaseOutcomes(i) :
         IF o = "segv"
         THEN crashed' = TRUE /\ UNCHANGED live_batches
         ELSE live_batches' = [live_batches EXCEPT ![i] = @ - 1] /\ UNCHANGED crashed
    /\ UNCHANGED << scenario, lib_exports, lib_refs, ctx, reader, iso, attached, tear_down_calls,
                    pc, frame >>

\* ----------------------------------------------------------- specification
\* The steps of threads T on streamer slots C.
Step(T, C) ==
    \/ \E t \in T, c \in C : TryNewResolve(t, c)
    \/ \E t \in T : TryNewCreateIsolate(t)
    \/ \E t \in T : TryNewDetach(t)
    \/ \E t \in T, c \in C, path \in Paths : CreateReaderAttach(t, c, path)
    \/ \E t \in T : CreateReaderCString(t)
    \/ \E t \in T : CreateReaderCall(t)
    \/ \E t \in T : CreateReaderLastError(t)
    \/ \E t \in T : CreateReaderErrDetach(t)
    \/ \E t \in T : CreateReaderOkDetach(t)
    \/ \E t \in T : CreateReaderFromRaw(t)
    \/ \E t \in T, c \in C : DropAttach(t, c)
    \/ \E t \in T : DropTearDown(t)
    \/ \E t \in T, r \in Readers : ReaderNext(t, r)
    \/ \E t \in T, r \in Readers : ReaderSchema(t, r)
    \/ \E t \in T, r \in Readers : DropReader(t, r)
    \/ \E t \in T, r \in Readers : ScopeEndDropReader(t, r)
    \/ \E t \in T, i \in IsoIds : DropBatch(t, i)
    \/ \E t \in T : Return(t)

\* One thread, one streamer.
Next == Step(OneThread, OneCtx)

Spec == Init /\ [][Next]_vars

\* The steps by which a call thread t is in goes on and returns.
Advance(t) ==
    \/ TryNewCreateIsolate(t)
    \/ TryNewDetach(t)
    \/ CreateReaderCString(t)
    \/ CreateReaderCall(t)
    \/ CreateReaderLastError(t)
    \/ CreateReaderErrDetach(t)
    \/ CreateReaderOkDetach(t)
    \/ CreateReaderFromRaw(t)
    \/ DropTearDown(t)
    \/ Return(t)

\* The client that drains its readers: every call it is in returns (the host
\* runtime answers), it calls next again and again, and it lets go of the
\* batches it holds.
Drain ==
    \A t \in OneThread :
        /\ WF_vars(Advance(t))
        /\ \A r \in Readers : SF_vars(ReaderNext(t, r))
        /\ \A i \in IsoIds : SF_vars(DropBatch(t, i))

SpecDrain == Init /\ [][Next]_vars /\ Drain

\* Two threads share one streamer (it is Send and Sync, lines 95-96); plain
\* paths, on a library with the six symbols.
InitShared == Start("plain", {AllSymbols})
NextShared == Step(Threads, OneCtx)
SpecShared == InitShared /\ [][NextShared]_vars

\* One thread builds two streamers from the same Arc<Library>; plain paths,
\* short sources, on a library with the six symbols.
InitTwoCtx == Start("short", {AllSymbols})
NextTwoCtx == Step(OneThread, Ctxs)
SpecTwoCtx == InitTwoCtx /\ [][NextTwoCtx]_vars

\* ------------------------------------------------------------------ claims
\* Thread t is at the return of a call of operation op.
AtReturn(t, op) == pc[t] = "ret" /\ frame[t].op = op
\* The calls of entry point fn in call log lg.
CallsOf(lg, fn) == { k \in DOMAIN lg : lg[k].fn = fn }
\* The attach of the call succeeded.
Attached(f) == f.ptr_thread # NullThread

\* C1: every batch obtained from a reader is released before the teardown of
\* the streamer that produced the reader runs: in no state is a batch alive
\* once graal_tear_down_isolate was called for its isolate.
C1_NoBatchOutlivesTeardown ==
    \A i \in IsoIds : tear_down_calls[i] # << >> => live_batches[i] = 0

\* C2: a reader is dropped strictly before its streamer is torn down: in no
\* state is a reader alive whose streamer has been dropped or whose isolate
\* has had its teardown called.
C2_NoReaderOutlivesStreamer ==
    \A r \in Readers :
        reader[r].state # "none" =>
            /\ ctx[reader[r].ctx].state # "dropped"
            /\ tear_down_calls[reader[r].isolate] = << >>

\* C3: every create_reader that attached the calling thread has called
\* graal_detach_thread on that same handle when control leaves it.
C3_DetachOnEveryExit ==
    \A t \in Threads :
        (AtReturn(t, "create_reader") /\ Attached(frame[t])) =>
            \E k \in CallsOf(frame[t].log, "graal_detach_thread") :
                frame[t].log[k].thread = frame[t].ptr_thread

\* C4: create_reader with a path holding an interior NUL returns an
\* InvalidPathError value: no panic, no gas_reader_stream call, no reader.
C4_NulPathIsReturnedError ==
    \A t \in Threads :
        (AtReturn(t, "create_reader") /\ Attached(frame[t]) /\ HasNul(frame[t].path)) =>
            /\ frame[t].res.kind = "err"
            /\ frame[t].res.err = "InvalidPathError"
            /\ CallsOf(frame[t].log, "gas_reader_stream") = {}
            /\ frame[t].rd = 0

\* gas_reader_stream answered non-zero in the call of frame f.
ProduceFailed(f) ==
    \E k \in CallsOf(f.log, "gas_reader_stream") : f.log[k].rc # 0

\* C5: when gas_reader_stream answers non-zero, create_reader returns a
\* DataSourceError whose message is the text the host wrote through
\* gas_last_error for the same handle: all of it when it fits the buffer
\* with its terminator, a prefix of it otherwise; and no reader.
C5_ErrorIsHostText ==
    \A t \in Threads :
        (AtReturn(t, "create_reader") /\ ProduceFailed(frame[t])) =>
            LET f == frame[t]
                text == Lossy(f.host_text)
            IN  /\ f.res.kind = "err"
                /\ f.res.err = "DataSourceError"
                /\ IsPrefix(f.res.msg, text)
                /\ Len(f.host_text) < buffer_size => f.res.msg = text
                /\ f.rd = 0

\* C6: when gas_reader_stream fails and the detach after it fails too, the
\* detach was attempted and the error returned is still the DataSourceError
\* with the host's message.
C6_DetachFailureDoesNotMask ==
    \A t \in Threads :
        LET f == frame[t]
        IN  ( /\ AtReturn(t, "create_reader")
              /\ ProduceFailed(f)
              /\ \E k \in CallsOf(f.log, "graal_detach_thread") : f.log[k].rc # 0 ) =>
                /\ f.res.kind = "err"
                /\ f.res.err = "DataSourceError"
                /\ f.res.msg = f.error

\* A live streamer holds the isolate it was built with, still alive and never
\* asked to tear down.
ContextIntact ==
    \A c \in Ctxs :
        ctx[c].state = "live" =>
            /\ ctx[c].ptr_isolate \in IsoIds
            /\ iso[ctx[c].ptr_isolate] = "alive"
            /\ tear_down_calls[ctx[c].ptr_isolate] = << >>
\* No step changes the native pointer or the function table of a streamer.
ContextFrame ==
    \A c \in Ctxs :
        ctx[c].state = "live" =>
            /\ ctx'[c].ptr_isolate = ctx[c].ptr_isolate
            /\ ctx'[c].fns = ctx[c].fns
            /\ ctx'[c].state \in {"live", "dropping", "dropped"}
\* A streamer stays live through every step but its own drop.
ContextStays ==
    \A c \in Ctxs :
        (ctx[c].state = "live" /\ ~ \E t \in Threads : DropAttach(t, c)) =>
            ctx'[c] = ctx[c] /\ iso'[ctx[c].ptr_isolate] = "alive"

\* C7: create_reader, next, and the release of readers and batches, in any
\* order, leave a live streamer as it was: same native pointer, same function
\* table, isolate alive, so that create_reader can be called on it again.
C7_ReleaseLeavesContextUsable ==
    /\ []ContextIntact
    /\ [][ContextFrame /\ ContextStays]_vars

\* create_reader gives a reader on a live streamer while a batch of an
\* earlier reader, dropped before its batch, is still alive.
C7_Witness ==
    \E t \in Threads :
        /\ AtReturn(t, "create_reader") /\ frame[t].res.kind = "ok"
        /\ ctx[frame[t].ctx].state = "live"
        /\ live_batches[ctx[frame[t].ctx].ptr_isolate] >= 1
        /\ \A q \in Readers \ {frame[t].rd} : reader[q].state = "none"

\* What next() has just answered is what the source had: a batch while it had
\* one left, the end once every batch of the source was given.
NextFollowsSource ==
    \A t \in Threads :
        AtReturn(t, "next") =>
            LET rd == reader[frame[t].rd]
            IN  rd.state = "open" =>
                  \/ frame[t].res.val = "batch" /\ rd.yielded >= 1 /\ ~rd.ended
                  \/ frame[t].res.val = "end" /\ rd.remaining = 0 /\ rd.ended
\* What schema() has just answered is the schema the stream was opened with.
SchemaFixed ==
    \A t \in Threads :
        AtReturn(t, "schema") =>
            LET rd == reader[frame[t].rd]
            IN  rd.state = "open" => frame[t].res.val = rd.schema /\ rd.schema \in Schemas

\* C8: on a finite source, a reader that is asked for its next batch again
\* and again comes to answer the end of the stream, having given the batches
\* of the source; and schema() answers the schema of the stream before the
\* first batch, between batches and after the end.
C8_DrainsAndSchemaFixed ==
    /\ \A r \in Readers :
          (reader[r].state = "open") ~>
              (reader[r].state # "open" \/ reader[r].ended \/ crashed)
    /\ [](NextFollowsSource /\ SchemaFixed)

\* schema() answers after the reader gave two batches and then the end.
C8_Witness ==
    \E t \in Threads :
        /\ AtReturn(t, "schema")
        /\ reader[frame[t].rd].ended
        /\ reader[frame[t].rd].yielded = 2
        /\ frame[t].res.val \in Schemas

\* C9: graal_tear_down_isolate is called at most once for a streamer: once,
\* with the handle the attach of drop gave, when that attach succeeds, never
\* when it fails, and never before the drop; drop ends without an error
\* whatever the teardown answers.
C9_TeardownAtMostOnce ==
    /\ \A i \in IsoIds : Len(tear_down_calls[i]) <= 1
    /\ \A c \in Ctxs :
          ctx[c].state = "live" => tear_down_calls[ctx[c].ptr_isolate] = << >>
    /\ \A t \in Threads :
          AtReturn(t, "drop") =>
            LET f == frame[t]
                i == ctx[f.ctx].ptr_isolate
                downs == CallsOf(f.log, "graal_tear_down_isolate")
            IN  /\ f.res.kind = "ok"
                /\ ctx[f.ctx].state = "dropped"
                /\ f.log[1].fn = "graal_attach_thread"
                /\ IF f.log[1].rc = 0
                   THEN /\ Cardinality(downs) = 1
                        /\ \A k \in downs : f.log[k].thread = Handle(i, t)
                        /\ tear_down_calls[i] = << Handle(i, t) >>
                   ELSE /\ downs = {}
                        /\ Len(f.log) = 1
                        /\ tear_down_calls[i] = << >>

\* A drop whose attach succeeded and whose teardown answered non-zero.
C9_Witness ==
    \E t \in Threads :
        /\ AtReturn(t, "drop")
        /\ Len(frame[t].log) = 2
        /\ frame[t].log[2].fn = "graal_tear_down_isolate"
        /\ frame[t].log[2].rc # 0

\* No construct, open or destroy call is in progress.
Quiescent == \A t \in Threads : pc[t] \in {"idle", "ret"}

\* C10: when no try_new, create_reader or drop is in progress, no thread
\* registration is outstanding (but one the host refused to end).
C10_NoRegistrationOutsideCalls ==
    Quiescent => \A h \in DOMAIN attached : attached[h].refused

\* A step of an operation on streamer slot d: a step of a call on it, or of
\* a reader or a batch that came from it.
StepOn(d) ==
    \E t \in Threads :
        \/ TryNewResolve(t, d)
        \/ \E path \in Paths : CreateReaderAttach(t, d, path)
        \/ DropAttach(t, d)
        \/ pc[t] # "idle" /\ frame[t].ctx = d /\ Advance(t)
        \/ \E r \in Readers :
             /\ reader[r].ctx = d
             /\ ReaderNext(t, r) \/ ReaderSchema(t, r) \/ DropReader(t, r)
                  \/ ScopeEndDropReader(t, r)
        \/ /\ ctx[d].state # "none"
           /\ DropBatch(t, ctx[d].ptr_isolate)
\* The step leaves streamer c as it is: its fields, its isolate and what the
\* host keeps for it, its readers and the batches they gave.
Untouched(c) ==
    /\ ctx'[c] = ctx[c]
    /\ \A r \in Readers : reader[r].ctx = c => reader'[r] = reader[r]
    /\ ctx[c].state # "none" =>
          LET i == ctx[c].ptr_isolate
          IN  /\ iso'[i] = iso[i]
              /\ tear_down_calls'[i] = tear_down_calls[i]
              /\ live_batches'[i] = live_batches[i]
              /\ \A h \in DOMAIN attached :
                    h[1] = i => h \in DOMAIN attached' /\ attached'[h] = attached[h]
\* A streamer that is not yet destroyed holds its Arc<Library>.
LibraryHeld ==
    \A c \in Ctxs :
        /\ ctx[c].state \in {"live", "dropping"} => c \in lib_refs
        /\ ~Busy(c) /\ ctx[c].state \in {"none", "dropped"} => c \notin lib_refs

\* C11: two streamers built from the same library are independent: a step of
\* any operation on one leaves the other's native pointer, its liveness, its
\* isolate and its readers as they were; the two hold different isolates; and
\* the library is held by every streamer that is not yet destroyed.
C11_ContextsIndependent ==
    /\ [][\A c, d \in Ctxs : (c # d /\ StepOn(d) /\ ~crashed') => Untouched(c)]_vars
    /\ [](\A c, d \in Ctxs :
            (c # d /\ ctx[c].state # "none" /\ ctx[d].state # "none") =>
                ctx[c].ptr_isolate # ctx[d].ptr_isolate)
    /\ []LibraryHeld

\* A reader of one streamer gives a batch after the other streamer, built
\* from the same library, was torn down.
C11_Witness ==
    \E t \in Threads, c, d \in Ctxs :
        /\ c # d
        /\ AtReturn(t, "next") /\ frame[t].res.val = "batch"
        /\ reader[frame[t].rd].ctx = c /\ ctx[c].state = "live"
        /\ ctx[d].state = "dropped" /\ tear_down_calls[ctx[d].ptr_isolate] # << >>
        /\ lib_refs = {Caller, c}

\* C12: try_new calls graal_create_isolate exactly once, with a null
\* configuration. On a non-zero answer it returns ContextCreationError, builds
\* no streamer and calls neither detach nor teardown; on zero it calls
\* graal_detach_thread on the initial thread handle and then returns the
\* streamer, which holds the isolate pointer the call was given.
C12_CreateOnceThenDetach ==
    \A t \in Threads :
        (AtReturn(t, "try_new") /\ FirstMissing(lib_exports) = "") =>
            LET f == frame[t]
            IN  /\ Cardinality(CallsOf(f.log, "graal_create_isolate")) = 1
                /\ f.log[1].fn = "graal_create_isolate"
                /\ f.log[1].isolate = Null /\ f.log[1].thread = NullThread
                /\ IF f.log[1].rc # 0
                   THEN /\ f.res.kind = "err" /\ f.res.err = "ContextCreationError"
                        /\ ctx[f.ctx].state = "none"
                        /\ Len(f.log) = 1
                        /\ f.ctx \notin lib_refs
                   ELSE /\ Len(f.log) = 2
                        /\ f.log[2].fn = "graal_detach_thread"
                        /\ f.log[2].thread = f.ptr_thread
                        /\ f.ptr_thread = Handle(f.ptr_isolate, t)
                        /\ f.res.kind = "ok"
                        /\ ctx[f.ctx].state = "live"
                        /\ ctx[f.ctx].ptr_isolate = f.ptr_isolate
                        /\ tear_down_calls[f.ptr_isolate] = << >>

\* try_new returns ContextCreationError: graal_create_isolate answered
\* non-zero and no isolate is up.
C12_Witness ==
    \E t \in Threads :
        /\ AtReturn(t, "try_new")
        /\ frame[t].res.err = "ContextCreationError"
        /\ frame[t].log[1].rc # 0
        /\ \A i \in IsoIds : iso[i] = "none"

\* The entry points of the library that a call log names (the callbacks of a
\* stream descriptor are not symbols of the library).
EntryCalls(lg) == { k \in DOMAIN lg : lg[k].fn \in AllSymbols }

\* C13: a symbol that does not resolve is an error of try_new alone: the call
\* returns SymbolResolutionError before graal_create_isolate is called (no
\* isolate is brought up), and a streamer that exists was built from a library
\* that exports all six, so every entry point its table names, and every one
\* any call invokes, is one the library has.
C13_ResolutionFailsAtConstruction ==
    /\ \A t \in Threads :
          (AtReturn(t, "try_new") /\ FirstMissing(lib_exports) # "") =>
              /\ frame[t].res.kind = "err"
              /\ frame[t].res.err = "SymbolResolutionError"
              /\ frame[t].log = << >>
    /\ FirstMissing(lib_exports) # "" =>
          /\ \A i \in IsoIds : iso[i] = "none"
          /\ \A c \in Ctxs : ctx[c].state = "none"
    /\ \A c \in Ctxs :
          ctx[c].state # "none" =>
              /\ AllSymbols \subseteq lib_exports
              /\ \A k \in DOMAIN ctx[c].fns : ctx[c].fns[k] \in lib_exports
    /\ \A t \in Threads :
          \A k \in EntryCalls(frame[t].log) : frame[t].log[k].fn \in lib_exports

\* try_new returns its error on a library that lacks only gas_last_error,
\* the last symbol resolved.
C13_Witness ==
    \E t \in Threads :
        /\ AtReturn(t, "try_new")
        /\ FirstMissing(lib_exports) = "gas_last_error"
        /\ frame[t].res.err = "SymbolResolutionError"

\* The calls of create_reader that take a thread handle.
HandleCalls(lg) ==
    { k \in DOMAIN lg :
        lg[k].fn \in {"gas_reader_stream", "gas_last_error", "graal_detach_thread"} }
\* Thread t is in a create_reader call.
InOpen(t) == pc[t] # "idle" /\ frame[t].op = "create_reader"
\* Every handle the create_reader call of thread t has passed to the host is
\* the one its own attach returned.
OwnHandleOnly(t) ==
    LET f == frame[t]
    IN  /\ Cardinality(CallsOf(f.log, "graal_attach_thread")) = 1
        /\ f.log[1].fn = "graal_attach_thread"
        /\ f.log[1].isolate = ctx[f.ctx].ptr_isolate
        /\ \A k \in HandleCalls(f.log) :
              /\ f.log[1].rc = 0
              /\ f.log[k].thread = f.ptr_thread
              /\ f.log[k].thread = Handle(ctx[f.ctx].ptr_isolate, t)
\* A step of the create_reader call of thread t.
OpenStep(t) == frame'[t] # frame[t] /\ frame'[t].op = "create_reader"

\* C14: with one streamer shared by threads that call create_reader at the
\* same time, in every interleaving each call passes to gas_reader_stream,
\* gas_last_error and graal_detach_thread only the handle its own attach
\* returned; no step of a call ends or changes the registration of another
\* thread; and no step of create_reader changes the streamer.
C14_ConcurrentOpensKeepOwnHandle ==
    /\ [](\A t \in Threads : InOpen(t) => OwnHandleOnly(t))
    /\ [][\A t \in Threads :
            OpenStep(t) =>
                /\ ctx' = ctx
                /\ \A h \in DOMAIN attached :
                      h[2] # t => h \in DOMAIN attached' /\ attached'[h] = attached[h]]_vars

\* Two create_reader calls on the same streamer are in progress at once: one
\* has detached and is returning its reader while the other still holds its
\* registration, about to ask for the error text.
C14_Witness ==
    \E t, u \in Threads :
        /\ t # u
        /\ frame[t].ctx = frame[u].ctx
        /\ AtReturn(t, "create_reader") /\ frame[t].res.kind = "ok"
        /\ ~IsAttached(frame[t].ptr_thread)
        /\ InOpen(u) /\ pc[u] = "cr_last_error"
        /\ IsAttached(frame[u].ptr_thread)

\* The calls that need a registered thread: the data-producing call, the
\* error retrieval and the teardown.
GuardedCalls(lg) ==
    { k \in DOMAIN lg :
        lg[k].fn \in {"gas_reader_stream", "gas_last_error", "graal_tear_down_isolate"} }
\* Every guarded call of thread t's call was given the handle that a
\* successful attach of this call returned to this thread, not yet detached;
\* and where the data-producing call failed, the error text was fetched before
\* any detach.
RegisteredCalls(t) ==
    LET f == frame[t]
    IN  /\ \A k \in GuardedCalls(f.log) :
              /\ f.log[1].fn = "graal_attach_thread" /\ f.log[1].rc = 0
              /\ f.log[k].thread = Handle(f.log[1].isolate, t)
              /\ f.log[k].thread = f.ptr_thread
              /\ \A j \in CallsOf(f.log, "graal_detach_thread") : j > k
        /\ ProduceFailed(f) =>
              \A d \in CallsOf(f.log, "graal_detach_thread") :
                  \E e \in CallsOf(f.log, "gas_last_error") : e < d
\* The step makes a guarded call for thread t.
MakesGuardedCall(t) ==
    /\ Len(frame'[t].log) = Len(frame[t].log) + 1
    /\ Len(frame'[t].log) \in GuardedCalls(frame'[t].log)

\* C15: gas_reader_stream, gas_last_error and graal_tear_down_isolate are only
\* ever called with a handle that a successful attach returned to the calling
\* thread and that has not been detached: it is registered with the host when
\* the call is made; on the failure path of create_reader the error text is
\* fetched before the detach.
C15_CallsUnderRegistration ==
    /\ [](\A t \in Threads : RegisteredCalls(t))
    /\ [][\A t \in Threads :
            MakesGuardedCall(t) =>
                IsAttached(frame'[t].log[Len(frame'[t].log)].thread)]_vars

\* create_reader returns the host's error: attach, the failed
\* gas_reader_stream, gas_last_error and the detach, in this order.
C15_Witness ==
    \E t \in Threads :
        /\ AtReturn(t, "create_reader")
        /\ frame[t].res.err = "DataSourceError"
        /\ Len(frame[t].log) = 4
        /\ frame[t].log[3].fn = "gas_last_error"
        /\ frame[t].log[4].fn = "graal_detach_thread"

\* The entry-point calls of a call log, in the order they were made.
EntrySeq(lg) == SelectSeq(lg, LAMBDA c : c.fn \in AllSymbols)
\* The calls made under a registration: the data-producing call and the
\* error retrieval.
IsProtected(c) == c.fn \in {"gas_reader_stream", "gas_last_error"}
\* Thread t holds a registration the host would let go of.
HoldsRegistration(t) ==
    \E h \in DOMAIN attached : h[2] = t /\ ~attached[h].refused

OpenShape(e) ==
    /\ Len(e) >= 1 => e[1].fn = "graal_attach_thread"
    /\ Len(e) >= 2 => e[1].rc = 0 /\ e[2].fn = "gas_reader_stream"
    /\ Len(e) >= 3 =>
          IF e[2].rc # 0 THEN e[3].fn = "gas_last_error"
          ELSE e[3].fn = "graal_detach_thread" /\ Len(e) = 3
    /\ Len(e) >= 4 => e[4].fn = "graal_detach_thread" /\ Len(e) = 4

ErrorOf(fn) ==
    CASE fn = "graal_create_isolate" -> "ContextCreationError"
      [] fn = "graal_attach_thread" -> "ThreadAttachError"
      [] fn = "graal_detach_thread" -> "ThreadDetachError"
      [] fn = "gas_reader_stream" -> "DataSourceError"
      [] OTHER -> "ErrorRetrievalError"
\* The entry-point calls of a log that answered non-zero.
FailedCalls(lg) == { k \in EntryCalls(lg) : lg[k].rc # 0 }

\* C17: outside drop, a non-zero return code of an entry point is reported to
\* the caller: a try_new or create_reader in which a host call answered
\* non-zero returns an error, the one of the first call that failed.
C17_NonZeroIsSurfaced ==
    \A t \in Threads :
        LET f == frame[t]
            failed == FailedCalls(f.log)
        IN  (pc[t] = "ret" /\ f.op \in {"try_new", "create_reader"} /\ failed # {}) =>
                LET first == CHOOSE k \in failed : \A j \in failed : k <= j
                IN  /\ f.res.kind = "err"
                    /\ f.res.err = ErrorOf(f.log[first].fn)

\* The number of calls of entry point fn in a call log.
CountOf(lg, fn) == Cardinality(CallsOf(lg, fn))

\* C18: a create_reader makes one attach call; when the attach succeeds, one
\* gas_reader_stream call, a gas_last_error call only when gas_reader_stream
\* answered non-zero and then one, and one detach call; when the attach fails
\* it returns ThreadAttachError with no further host call.
C18_OneCallEach ==
    \A t \in Threads :
        AtReturn(t, "create_reader") =>
            LET f == frame[t]
            IN  /\ CountOf(f.log, "graal_attach_thread") = 1
                /\ f.log[1].fn = "graal_attach_thread"
                /\ IF f.log[1].rc # 0
                   THEN /\ f.res.kind = "err" /\ f.res.err = "ThreadAttachError"
                        /\ Len(f.log) = 1
                   ELSE /\ CountOf(f.log, "gas_reader_stream") = 1
                        /\ CountOf(f.log, "gas_last_error") =
                              (IF ProduceFailed(f) THEN 1 ELSE 0)
                        /\ CountOf(f.log, "graal_detach_thread") = 1
                        /\ CountOf(f.log, "graal_create_isolate") = 0
                        /\ CountOf(f.log, "graal_tear_down_isolate") = 0

\* The texts last_error may return for host text m without reading past its
\* buffer: the lossy decoding of the first n bytes of m, n within the capacity.
WithinBuffer(m) ==
    { Lossy(SubSeq(m, 1, n)) : n \in 0 .. Min(Len(m), buffer_size) }

\* C19: last_error never reads beyond its buffer: whatever the length of the
\* host's message, and also when the host fills the buffer and leaves no NUL,
\* the scan ends inside the buffer (no fault), and the text returned is made of
\* bytes of the buffer only, the message cut to at most the capacity.
C19_NoReadBeyondBuffer ==
    \A t \in Threads :
        /\ ~(crashed /\ pc[t] = "cr_last_error")
        /\ (InOpen(t) /\ CallsOf(frame[t].log, "gas_last_error") # {}) =>
              /\ Len(frame[t].error) <= buffer_size
              /\ frame[t].error \in WithinBuffer(frame[t].host_text)

\* What a create_reader holds of its stream descriptor: no release is made
\* twice; where the data-producing call failed the descriptor is empty and no
\* release is made; a call that returns an error or panics leaves no
\* populated descriptor and no reader; a call that returns its reader has
\* handed the descriptor over unreleased.
DescriptorKept(t) ==
    LET f == frame[t]
    IN  /\ CountOf(f.log, "release") <= 1
        /\ ProduceFailed(f) => ~f.ffi_stream.populated /\ CountOf(f.log, "release") = 0
        /\ (pc[t] = "ret" /\ f.res.kind # "ok") => ~f.ffi_stream.populated /\ f.rd = 0
        /\ (pc[t] = "ret" /\ f.res.kind = "ok") =>
              /\ CountOf(f.log, "release") = 0
              /\ f.rd \in Readers /\ reader[f.rd].state = "open"
\* The step returns an error from a create_reader that holds a populated
\* descriptor.
FailsHoldingStream(t) ==
    /\ InOpen(t) /\ frame[t].ffi_stream.populated
    /\ pc'[t] = "ret" /\ frame'[t].res.kind # "ok"

\* C20: when create_reader returns an error no populated stream descriptor is
\* left unreleased: after a failed gas_reader_stream the descriptor is still
\* empty, and when a later step fails (the detach, or the wrapping into a
\* reader) the release callback of the populated descriptor is run once before
\* the return; a descriptor handed to a reader is released only by the drop of
\* that reader.
C20_NoDescriptorLeak ==
    /\ [](\A t \in Threads : InOpen(t) => DescriptorKept(t))
    /\ [][\A t \in Threads :
            FailsHoldingStream(t) =>
                /\ CountOf(frame'[t].log, "release") = 1
                /\ frame'[t].log[Len(frame'[t].log)].fn = "release"]_vars
    /\ [][\A r \in Readers :
            (reader[r].state # "none" /\ reader'[r] # reader[r] /\ reader'[r].state = "none") =>
                /\ reader'[r] = NoReader
                /\ \E t \in Threads : DropReader(t, r) \/ ScopeEndDropReader(t, r)]_vars

\* create_reader returns ThreadDetachError after the host had populated the
\* descriptor: the descriptor was released on the way out.
C20_Witness ==
    \E t \in Threads :
        /\ AtReturn(t, "create_reader")
        /\ frame[t].res.err = "ThreadDetachError"
        /\ ~ProduceFailed(frame[t])
        /\ CountOf(frame[t].log, "release") = 1

====
